---- MODULE Spec2Model ----
(***************************************************************************)
(* Model of the healthcare dashboard (src/app.py): the loader load_data,   *)
(* the five Dash callbacks update_distribution, update_medical_condition,  *)
(* update_insurance, update_billing and update_admission, and the wiring   *)
(* of the four controls to them.                                           *)
(*                                                                         *)
(* Text of the CSV file is a tuple of one-character strings, so that       *)
(* parsing (pd.to_numeric, pd.to_datetime) and formatting (astype(str))    *)
(* are computed and not assumed.  Billing amounts are whole units.         *)
(* A float column value is <<v>>, or <<>> for NaN.                         *)
(***************************************************************************)
EXTENDS Integers, Sequences, FiniteSets, TLC

VARIABLES
    source,      \* the rows of assets/healthcare.csv, as text
    started,     \* FALSE when load_data raised at import time (line 19)
    data,        \* the module-level table `data`
    gender,      \* value of the gender-filter dropdown
    slider,      \* value of the billing-slider, <<v>> or NaN
    chart_type,  \* value of the chart-type radio items
    condition,   \* value of the condition-filter dropdown
    pending,     \* callbacks the Dash runtime has still to call
    changed,     \* id of the control of the latest user interaction
    triggered,   \* callbacks that interaction triggered
    last,        \* the latest callback invocation: name, arguments, figure
    memo         \* observer: one earlier invocation, kept for comparison

vars == <<source, started, data, gender, slider, chart_type, condition,
          pending, changed, triggered, last, memo>>

controls == <<gender, slider, chart_type, condition>>

(***************************************************************************)
(* Bounds of the model.                                                    *)
(***************************************************************************)
\* longest CSV file of the specification Spec
MaxRows == 3
\* longest CSV file of the specification SpecObs
MaxRowsObs == 2

(***************************************************************************)
(* Python and pandas values.                                               *)
(***************************************************************************)
None == "<None>"
NaN == <<>>

\* bool(v) of a dropdown value: None and the empty string are false
Truthy(v) == v # None /\ v # ""

DigitChars == <<"0", "1", "2", "3", "4", "5", "6", "7", "8", "9">>
IsDigit(c) == \E i \in 1..10 : DigitChars[i] = c
DigitVal(c) == (CHOOSE i \in 1..10 : DigitChars[i] = c) - 1
Digit(n) == DigitChars[n + 1]

RECURSIVE DecimalValue(_)
DecimalValue(t) ==
    IF t = <<>> THEN 0
    ELSE 10 * DecimalValue(SubSeq(t, 1, Len(t) - 1)) + DigitVal(t[Len(t)])

IsNumeral(t) == Len(t) > 0 /\ \A i \in 1..Len(t) : IsDigit(t[i])

\* pd.to_numeric(cell, errors='coerce'): the number, or NaN for anything else
\* (an empty cell is already NaN after read_csv)
to_numeric(t) == IF IsNumeral(t) THEN <<DecimalValue(t)>> ELSE NaN

IsLeap(y) == (y % 4 = 0 /\ y % 100 # 0) \/ y % 400 = 0
DaysInMonth(y, m) ==
    IF m = 2 THEN (IF IsLeap(y) THEN 29 ELSE 28)
    ELSE IF m \in {4, 6, 9, 11} THEN 30 ELSE 31

\* a cell pd.to_datetime parses: YYYY-MM-DD with a month and a day that exist
IsDateText(t) ==
    /\ Len(t) = 10
    /\ t[5] = "-" /\ t[8] = "-"
    /\ \A i \in {1, 2, 3, 4, 6, 7, 9, 10} : IsDigit(t[i])
    /\ DecimalValue(SubSeq(t, 6, 7)) \in 1..12
    /\ DecimalValue(SubSeq(t, 9, 10)) \in
          1..DaysInMonth(DecimalValue(SubSeq(t, 1, 4)), DecimalValue(SubSeq(t, 6, 7)))

to_datetime(t) ==
    [year  |-> DecimalValue(SubSeq(t, 1, 4)),
     month |-> DecimalValue(SubSeq(t, 6, 7)),
     day   |-> DecimalValue(SubSeq(t, 9, 10))]

\* .dt.to_period('M')
to_period(d) == [year |-> d.year, month |-> d.month]

\* the order of monthly periods
PeriodOrd(p) == 12 * p.year + p.month

\* Period.astype(str): "YYYY-MM"
astype_str(p) ==
    <<Digit(p.year \div 1000), Digit((p.year \div 100) % 10),
      Digit((p.year \div 10) % 10), Digit(p.year % 10), "-",
      Digit(p.month \div 10), Digit(p.month % 10)>>

Column(d, c) == [i \in 1..Len(d) |-> d[i][c]]

\* Series.unique(): the distinct values in order of first appearance
RECURSIVE unique(_)
unique(s) ==
    IF s = <<>> THEN <<>>
    ELSE LET h == unique(SubSeq(s, 1, Len(s) - 1))
         IN  IF \E i \in 1..Len(h) : h[i] = s[Len(s)] THEN h
             ELSE Append(h, s[Len(s)])

RECURSIVE SumSeq(_)
SumSeq(s) == IF s = <<>> THEN 0 ELSE s[1] + SumSeq(Tail(s))

\* the numbers of a float column, NaN skipped
RECURSIVE Valid(_)
Valid(col) ==
    IF col = <<>> THEN <<>>
    ELSE IF col[1] = NaN THEN Valid(Tail(col)) ELSE <<col[1][1]>> \o Valid(Tail(col))

SeqMin(s) == CHOOSE v \in {s[i] : i \in 1..Len(s)} : \A j \in 1..Len(s) : v <= s[j]
SeqMax(s) == CHOOSE v \in {s[i] : i \in 1..Len(s)} : \A j \in 1..Len(s) : v >= s[j]

(***************************************************************************)
(* load_data.                                                              *)
(***************************************************************************)
LoadRow(r) ==
    [Gender            |-> r.Gender,
     Age               |-> r.Age,
     MedicalCondition  |-> r.MedicalCondition,
     InsuranceProvider |-> r.InsuranceProvider,
     BillingAmount     |-> to_numeric(r.BillingAmount),
     DateOfAdmission   |-> to_datetime(r.DateOfAdmission),
     YearMonth         |-> to_period(to_datetime(r.DateOfAdmission))]

\* mutant: rows whose billing did not parse are dropped (a dropna)
load_data_dropna(src) ==
    IF \A i \in 1..Len(src) : IsDateText(src[i].DateOfAdmission)
    THEN [raised |-> FALSE,
          table  |-> SelectSeq([i \in 1..Len(src) |-> LoadRow(src[i])],
                               LAMBDA r : r.BillingAmount # NaN)]
    ELSE [raised |-> TRUE, table |-> <<>>]

\* pd.to_datetime raises on a cell it cannot parse; nothing else raises
load_data(src) ==
    IF \A i \in 1..Len(src) : IsDateText(src[i].DateOfAdmission)
    THEN [raised |-> FALSE, table |-> [i \in 1..Len(src) |-> LoadRow(src[i])]]
    ELSE [raised |-> TRUE, table |-> <<>>]

(***************************************************************************)
(* plotly express: the figure a call returns.  A figure holds its traces,  *)
(* one per value of the color column in order of first appearance (one in  *)
(* all without a color column, none for an empty frame); a trace holds the *)
(* x and y arrays taken row by row from the frame.                         *)
(***************************************************************************)
\* number of bins asked of px.histogram
nbins == 10

Trace(df, name, x, y) ==
    [name |-> name,
     x    |-> IF x = None THEN <<>> ELSE Column(df, x),
     y    |-> IF y = None THEN <<>> ELSE Column(df, y)]

Traces(df, x, y, color) ==
    IF color = None
    THEN IF df = <<>> THEN <<>> ELSE <<Trace(df, "", x, y)>>
    ELSE LET names == unique(Column(df, color))
         IN  [k \in 1..Len(names) |->
                Trace(SelectSeq(df, LAMBDA r : r[color] = names[k]), names[k], x, y)]

px_histogram(df, x, color) ==
    [kind |-> "histogram", xaxis |-> x, barmode |-> "relative",
     traces |-> Traces(df, x, None, color)]

px_pie(df, names) ==
    [kind |-> "pie", xaxis |-> names, barmode |-> "", traces |-> Traces(df, names, None, None)]

px_bar(df, x, y, color, barmode) ==
    [kind |-> "bar", xaxis |-> x, barmode |-> barmode, traces |-> Traces(df, x, y, color)]

px_line(df, x, y) ==
    [kind |-> "line", xaxis |-> x, barmode |-> "", traces |-> Traces(df, x, y, None)]

\* the `{}` update_distribution returns for an empty frame
EmptyDict == [kind |-> "dict", xaxis |-> "", barmode |-> "", traces |-> <<>>]

\* the numbers a histogram trace bins: NaN entries of a float column are skipped
TraceNumbers(fig, k) ==
    IF fig.xaxis = "BillingAmount" THEN Valid(fig.traces[k].x) ELSE fig.traces[k].x

RECURSIVE Concat(_)
Concat(ss) == IF ss = <<>> THEN <<>> ELSE ss[1] \o Concat(Tail(ss))

HistogramNumbers(fig) == Concat([k \in 1..Len(fig.traces) |-> TraceNumbers(fig, k)])

\* mutant: the bin width is rounded down, so the top of the range falls outside
BinCounts_floor(fig) ==
    LET xs == HistogramNumbers(fig)
    IN  IF xs = <<>> THEN [k \in 1..Len(fig.traces) |-> [b \in 1..nbins |-> 0]]
        ELSE LET lo == SeqMin(xs)
                 span == SeqMax(xs) - lo
                 w == IF span \div nbins = 0 THEN 1 ELSE span \div nbins
             IN  [k \in 1..Len(fig.traces) |->
                    [b \in 1..nbins |->
                       Cardinality({i \in 1..Len(TraceNumbers(fig, k)) :
                          TraceNumbers(fig, k)[i] \in
                             (lo + (b - 1) * w)..(lo + b * w - 1)})]]

\* the counts of the nbins equal-width bins over the observed range, per trace
BinCounts(fig) ==
    LET xs == HistogramNumbers(fig)
    IN  IF xs = <<>> THEN [k \in 1..Len(fig.traces) |-> [b \in 1..nbins |-> 0]]
        ELSE LET lo == SeqMin(xs)
                 span == SeqMax(xs) - lo + 1
                 w == (span + nbins - 1) \div nbins
             IN  [k \in 1..Len(fig.traces) |->
                    [b \in 1..nbins |->
                       Cardinality({i \in 1..Len(TraceNumbers(fig, k)) :
                          TraceNumbers(fig, k)[i] \in
                             (lo + (b - 1) * w)..(lo + b * w - 1)})]]

TotalCount(fig) ==
    LET c == BinCounts(fig)
    IN  SumSeq([k \in 1..Len(c) |-> SumSeq(c[k])])

(***************************************************************************)
(* The five callbacks.  Each is given the module-level table and its       *)
(* arguments, and yields the figure it returns and the table it leaves.    *)
(***************************************************************************)
\* mutant: the comparison ignores case
FilterGender_nocase(d, g) ==
    LET Lower(s) == CASE s = "F" -> "f" [] s = "M" -> "m" [] OTHER -> s
    IN  SelectSeq(d, LAMBDA r : Lower(r.Gender) = Lower(g))

\* data[data["Gender"] == selected_gender]
FilterGender(d, g) == SelectSeq(d, LAMBDA r : r.Gender = g)

GenderFrame(d, selected_gender) ==
    IF Truthy(selected_gender) THEN FilterGender(d, selected_gender) ELSE d

update_distribution(d, selected_gender) ==
    LET filtered_data_frame == GenderFrame(d, selected_gender)
    IN  [data   |-> d,
         figure |-> IF filtered_data_frame = <<>> THEN EmptyDict
                    ELSE px_histogram(filtered_data_frame, "Age", "Gender")]

update_medical_condition(d, selected_gender) ==
    LET filtered_data_frame == GenderFrame(d, selected_gender)
    IN  [data   |-> d,
         figure |-> px_pie(filtered_data_frame, "MedicalCondition")]

update_insurance(d, selected_gender) ==
    LET filtered_data_frame == GenderFrame(d, selected_gender)
    IN  [data   |-> d,
         figure |-> px_bar(filtered_data_frame, "InsuranceProvider", "BillingAmount",
                           "MedicalCondition", "group")]

\* Series <= number: False where the series holds NaN
LessEq(b, v) == b # NaN /\ b[1] <= v

\* mutant: the comparison is strict
update_billing_strict(d, selected_gender, slider_value) ==
    LET by_gender == GenderFrame(d, selected_gender)
        filtered_data_frame ==
            SelectSeq(by_gender, LAMBDA r : r.BillingAmount # NaN
                                            /\ r.BillingAmount[1] < slider_value)
    IN  [data   |-> d,
         figure |-> px_histogram(filtered_data_frame, "BillingAmount", None)]

\* mutant: the comparison is turned round
update_billing_ge(d, selected_gender, slider_value) ==
    LET by_gender == GenderFrame(d, selected_gender)
        filtered_data_frame ==
            SelectSeq(by_gender, LAMBDA r : r.BillingAmount # NaN
                                            /\ r.BillingAmount[1] >= slider_value)
    IN  [data   |-> d,
         figure |-> px_histogram(filtered_data_frame, "BillingAmount", None)]

\* mutant: the filtered frame is assigned to the module-level table
update_billing_inplace(d, selected_gender, slider_value) ==
    LET by_gender == GenderFrame(d, selected_gender)
        filtered_data_frame ==
            SelectSeq(by_gender, LAMBDA r : LessEq(r.BillingAmount, slider_value))
    IN  [data   |-> filtered_data_frame,
         figure |-> px_histogram(filtered_data_frame, "BillingAmount", None)]

update_billing(d, selected_gender, slider_value) ==
    LET by_gender == GenderFrame(d, selected_gender)
        filtered_data_frame ==
            SelectSeq(by_gender, LAMBDA r : LessEq(r.BillingAmount, slider_value))
    IN  [data   |-> d,
         figure |-> px_histogram(filtered_data_frame, "BillingAmount", None)]

\* mutant: groupby(..., sort=False) keeps the keys in order of first appearance
groupby_size_nosort(df, key) ==
    LET keys == unique(Column(df, key))
    IN  [k \in 1..Len(keys) |->
           [YearMonth |-> keys[k],
            Count     |-> Cardinality({i \in 1..Len(df) : df[i][key] = keys[k]})]]

\* df.groupby(key).size().reset_index(name="Count"): one row per key, keys ascending
groupby_size(df, key) ==
    LET keys == SortSeq(unique(Column(df, key)),
                        LAMBDA a, b : PeriodOrd(a) < PeriodOrd(b))
    IN  [k \in 1..Len(keys) |->
           [YearMonth |-> keys[k],
            Count     |-> Cardinality({i \in 1..Len(df) : df[i][key] = keys[k]})]]

\* mutant: the filtered frame is assigned to the module-level table
update_admission_inplace(d, chart, selected_condition) ==
    LET filtered_data_frame ==
            IF Truthy(selected_condition)
            THEN SelectSeq(d, LAMBDA r : r.MedicalCondition = selected_condition)
            ELSE d
        grouped == groupby_size(filtered_data_frame, "YearMonth")
        trend_data_frame ==
            [k \in 1..Len(grouped) |->
               [YearMonth |-> astype_str(grouped[k].YearMonth), Count |-> grouped[k].Count]]
    IN  [data   |-> filtered_data_frame,
         figure |-> IF chart = "line"
                    THEN px_line(trend_data_frame, "YearMonth", "Count")
                    ELSE px_bar(trend_data_frame, "YearMonth", "Count", None, "relative")]

update_admission(d, chart, selected_condition) ==
    LET filtered_data_frame ==
            IF Truthy(selected_condition)
            THEN SelectSeq(d, LAMBDA r : r.MedicalCondition = selected_condition)
            ELSE d
        grouped == groupby_size(filtered_data_frame, "YearMonth")
        trend_data_frame ==
            [k \in 1..Len(grouped) |->
               [YearMonth |-> astype_str(grouped[k].YearMonth), Count |-> grouped[k].Count]]
    IN  [data   |-> d,
         figure |-> IF chart = "line"
                    THEN px_line(trend_data_frame, "YearMonth", "Count")
                    ELSE px_bar(trend_data_frame, "YearMonth", "Count", None, "relative")]

(***************************************************************************)
(* The layout: initial control values and what the controls offer.         *)
(***************************************************************************)
\* step of the billing slider
step == 100

BillingNumbers(d) == Valid(Column(d, "BillingAmount"))

\* data["Billing Amount"].median(): NaN skipped, NaN for no number at all
Median(d) ==
    LET v == SortSeq(BillingNumbers(d), LAMBDA a, b : a < b)
        n == Len(v)
    IN  IF n = 0 THEN NaN
        ELSE IF n % 2 = 1 THEN <<v[(n + 1) \div 2]>>
        ELSE <<(v[n \div 2] + v[n \div 2 + 1]) \div 2>>

\* the positions of the slider: from min to max of the column, by step
SliderPositions(d) ==
    LET v == BillingNumbers(d)
    IN  IF v = <<>> THEN {}
        ELSE {SeqMin(v) + step * k : k \in 0..((SeqMax(v) - SeqMin(v)) \div step)}

GenderOptions(d) == {d[i].Gender : i \in 1..Len(d)}
ConditionOptions(d) == {d[i].MedicalCondition : i \in 1..Len(d)}
ChartOptions == {"line", "bar"}

\* mutant: update_billing listens to the slider alone
Inputs_slider_only ==
    [update_distribution      |-> {"gender-filter"},
     update_medical_condition |-> {"gender-filter"},
     update_insurance         |-> {"gender-filter"},
     update_billing           |-> {"billing-slider"},
     update_admission         |-> {"chart-type", "condition-filter"}]

\* the Input(...) lists of the five @app.callback decorators
Inputs ==
    [update_distribution      |-> {"gender-filter"},
     update_medical_condition |-> {"gender-filter"},
     update_insurance         |-> {"gender-filter"},
     update_billing           |-> {"gender-filter", "billing-slider"},
     update_admission         |-> {"chart-type", "condition-filter"}]

Callbacks == DOMAIN Inputs

\* the callbacks a change of the control fires
Wired(control) == {cb \in Callbacks : control \in Inputs[cb]}

(***************************************************************************)
(* The CSV files and the argument values the model draws from.             *)
(***************************************************************************)
Row(g, a, c, p, b, t) ==
    [Gender |-> g, Age |-> a, MedicalCondition |-> c, InsuranceProvider |-> p,
     BillingAmount |-> b, DateOfAdmission |-> t]

RowList ==
    <<Row("F", 30, "Diabetes", "Aetna", <<"2", "0", "0">>,
          <<"2", "0", "2", "1", "-", "0", "3", "-", "0", "5">>),
      Row("M", 45, "Diabetes", "Aetna", <<"b", "a", "d">>,
          <<"2", "0", "2", "1", "-", "0", "3", "-", "2", "0">>),
      Row("F", 62, "Asthma", "Cigna", <<"1", "0", "0">>,
          <<"2", "0", "2", "0", "-", "1", "1", "-", "0", "2">>),
      Row("M", 30, "Diabetes", "Aetna", <<"1", "0", "0">>,
          <<"2", "0", "2", "1", "-", "0", "1", "-", "1", "5">>),
      Row("F", 51, "Diabetes", "Aetna", <<"0">>,
          <<"2", "0", "2", "0", "-", "1", "1", "-", "3", "0">>),
      Row("M", 18, "Asthma", "Cigna", <<"3", "0", "0">>,
          <<"2", "0", "2", "1", "-", "1", "2", "-", "0", "1">>),
      Row("F", 40, "Asthma", "Aetna", <<"5", "0">>,
          <<"0", "3", "/", "2", "0", "2", "1">>)>>

Rows == {RowList[i] : i \in 1..Len(RowList)}
ObsRows == {RowList[i] : i \in 1..4}

Files(rows, n) == UNION {[1..k -> rows] : k \in 0..n}

DispatchFiles ==
    {<<RowList[1], RowList[3], RowList[6], RowList[2]>>,
     <<RowList[4], RowList[5], RowList[1]>>}

GenderValues == {None, "", "F", "M", "f"}
Thresholds == {50, 100, 250, 300}
ChartValues == {"line", "bar", "area"}
ConditionValues == {None, "Diabetes", "Asthma", "Flu"}

(***************************************************************************)
(* The state machine.                                                      *)
(***************************************************************************)
NoCall == [cb |-> "", args |-> <<>>, figure |-> EmptyDict, between |-> FALSE]

\* import of the module: data = load_data(), then the layout
Startup(files) ==
    /\ source \in files
    /\ started = ~load_data(source).raised
    /\ data = load_data(source).table
    /\ gender = None
    /\ slider = Median(data)
    /\ chart_type = "line"
    /\ condition = None
    /\ changed = None
    /\ triggered = {}
    /\ last = NoCall
    /\ memo = NoCall

Init == Startup(Files(Rows, MaxRows)) /\ pending = {}

InitObs == Startup(Files(ObsRows, MaxRowsObs)) /\ pending = {}

\* the page is opened: Dash calls every callback once with the initial values
InitDispatch == Startup(DispatchFiles) /\ pending = Callbacks

\* one invocation of callback cb with args, r being what the callback yields
Invoke(cb, args, r) ==
    /\ started
    /\ data' = r.data
    /\ last' = [cb |-> cb, args |-> args, figure |-> r.figure, between |-> FALSE]
    /\ memo' = IF memo.cb = "" \/ (memo.cb = cb /\ memo.args = args) THEN memo
               ELSE [memo EXCEPT !.between = TRUE]
    /\ UNCHANGED <<source, started>>

\* a request to the callback endpoint, with any argument values
call_update_distribution ==
    /\ \E g \in GenderValues :
          Invoke("update_distribution", <<g>>, update_distribution(data, g))
    /\ UNCHANGED <<controls, pending, changed, triggered>>

call_update_medical_condition ==
    /\ \E g \in GenderValues :
          Invoke("update_medical_condition", <<g>>, update_medical_condition(data, g))
    /\ UNCHANGED <<controls, pending, changed, triggered>>

call_update_insurance ==
    /\ \E g \in GenderValues :
          Invoke("update_insurance", <<g>>, update_insurance(data, g))
    /\ UNCHANGED <<controls, pending, changed, triggered>>

call_update_billing ==
    /\ \E g \in GenderValues, t \in Thresholds :
          Invoke("update_billing", <<g, t>>, update_billing(data, g, t))
    /\ UNCHANGED <<controls, pending, changed, triggered>>

call_update_admission ==
    /\ \E c \in ChartValues, m \in ConditionValues :
          Invoke("update_admission", <<c, m>>, update_admission(data, c, m))
    /\ UNCHANGED <<controls, pending, changed, triggered>>

\* the observer keeps the latest invocation
Observe ==
    /\ memo.cb = ""
    /\ last.cb # ""
    /\ memo' = last
    /\ UNCHANGED <<source, started, data, controls, pending, changed, triggered, last>>

\* the process starts again (the debug reloader): the module is imported anew
Restart ==
    /\ started
    /\ data' = load_data(source).table
    /\ gender' = None
    /\ slider' = Median(data')
    /\ chart_type' = "line"
    /\ condition' = None
    /\ pending' = {}
    /\ changed' = None
    /\ triggered' = {}
    /\ last' = NoCall
    /\ memo' = IF memo.cb = "" THEN memo ELSE [memo EXCEPT !.between = TRUE]
    /\ UNCHANGED <<source, started>>

\* the user changes one control: its callbacks are queued
Change(control) ==
    /\ started
    /\ changed' = control
    /\ triggered' = Wired(control)
    /\ pending' = pending \cup Wired(control)
    /\ UNCHANGED <<source, started, data, last, memo>>

SelectGender ==
    /\ \E g \in GenderOptions(data) \cup {None} : g # gender /\ gender' = g
    /\ Change("gender-filter")
    /\ UNCHANGED <<slider, chart_type, condition>>

MoveSlider ==
    /\ \E v \in SliderPositions(data) : <<v>> # slider /\ slider' = <<v>>
    /\ Change("billing-slider")
    /\ UNCHANGED <<gender, chart_type, condition>>

SelectChartType ==
    /\ \E c \in ChartOptions : c # chart_type /\ chart_type' = c
    /\ Change("chart-type")
    /\ UNCHANGED <<gender, slider, condition>>

SelectCondition ==
    /\ \E m \in ConditionOptions(data) \cup {None} : m # condition /\ condition' = m
    /\ Change("condition-filter")
    /\ UNCHANGED <<gender, slider, chart_type>>

\* the Dash runtime calls a queued callback with the current control values
Dispatch(cb) ==
    /\ cb \in pending
    /\ pending' = pending \ {cb}
    /\ UNCHANGED <<controls, changed, triggered>>

run_update_distribution ==
    /\ Dispatch("update_distribution")
    /\ Invoke("update_distribution", <<gender>>, update_distribution(data, gender))

run_update_medical_condition ==
    /\ Dispatch("update_medical_condition")
    /\ Invoke("update_medical_condition", <<gender>>,
              update_medical_condition(data, gender))

run_update_insurance ==
    /\ Dispatch("update_insurance")
    /\ Invoke("update_insurance", <<gender>>, update_insurance(data, gender))

run_update_billing ==
    /\ Dispatch("update_billing")
    /\ slider # NaN
    /\ Invoke("update_billing", <<gender, slider[1]>>,
              update_billing(data, gender, slider[1]))

run_update_admission ==
    /\ Dispatch("update_admission")
    /\ Invoke("update_admission", <<chart_type, condition>>,
              update_admission(data, chart_type, condition))

Next ==
    \/ call_update_distribution
    \/ call_update_medical_condition
    \/ call_update_insurance
    \/ call_update_billing
    \/ call_update_admission

NextObs == Next \/ Observe \/ Restart

NextDispatch ==
    \/ SelectGender
    \/ MoveSlider
    \/ SelectChartType
    \/ SelectCondition
    \/ run_update_distribution
    \/ run_update_medical_condition
    \/ run_update_insurance
    \/ run_update_billing
    \/ run_update_admission

Spec == Init /\ [][Next]_vars

SpecObs == InitObs /\ [][NextObs]_vars

SpecDispatch == InitDispatch /\ [][NextDispatch]_vars

(***************************************************************************)
(* The claims.                                                             *)
(***************************************************************************)
GenderFiltered ==
    {"update_distribution", "update_medical_condition", "update_insurance",
     "update_billing"}

\* the rows a gender argument selects: all of them for None or the empty string
Selected(d, g) == SelectSeq(d, LAMBDA r : g \in {None, ""} \/ r.Gender = g)

\* a result that shows no data point
IsEmptyResult(fig) == \A k \in 1..Len(fig.traces) : fig.traces[k].x = <<>>

Points(fig) == Concat([k \in 1..Len(fig.traces) |-> fig.traces[k].x])

\* the month a label "YYYY-MM" names, as a number of months
LabelKey(l) == 12 * DecimalValue(SubSeq(l, 1, 4)) + DecimalValue(SubSeq(l, 6, 7))

\* the decimal numeral of n
RECURSIVE DecimalText(_)
DecimalText(n) ==
    IF n < 10 THEN <<Digit(n)>> ELSE Append(DecimalText(n \div 10), Digit(n % 10))

\* C1: whatever callbacks have been invoked, with whatever arguments, the
\* module-level table is the table load_data produced from the file: same
\* rows, same order, same column values.
C1_TableUnchanged == started => data = load_data(source).table

\* C1 witness: update_admission has run with a condition filter that keeps
\* some rows of the table and leaves others out.
C1_Witness ==
    /\ last.cb = "update_admission"
    /\ \E i, j \in 1..Len(data) :
          /\ data[i].MedicalCondition = last.args[2]
          /\ data[j].MedicalCondition # last.args[2]

C3_AbsentGenderEmpty ==
    (/\ last.cb \in GenderFiltered
     /\ last.args[1] # None
     /\ \A i \in 1..Len(data) : data[i].Gender # last.args[1])
    => IsEmptyResult(last.figure)

\* C3 amended: for a non-empty gender value that occurs in no row, a
\* gender-filtered callback returns an empty result (update_distribution the
\* empty dict, the others a figure without data points).
C3_AbsentNonEmptyGenderEmpty ==
    (/\ last.cb \in GenderFiltered
     /\ last.args[1] \notin {None, ""}
     /\ \A i \in 1..Len(data) : data[i].Gender # last.args[1])
    => /\ IsEmptyResult(last.figure)
       /\ last.cb = "update_distribution" => last.figure = EmptyDict
       /\ last.cb = "update_billing" => TotalCount(last.figure) = 0

\* C3 witness: update_billing was called with the gender "f" on a table
\* that has rows of gender "F" under the threshold and none of gender "f".
C3_Witness ==
    /\ last.cb = "update_billing"
    /\ last.args[1] = "f"
    /\ \E i \in 1..Len(data) :
          /\ data[i].Gender = "F"
          /\ data[i].BillingAmount # NaN
          /\ data[i].BillingAmount[1] <= last.args[2]

\* C4 as stated: every bar update_insurance shows for an (Insurance
\* Provider, Medical Condition) pair has the mean Billing Amount of the
\* selected rows of that pair as its height.
C4_MeanPerPair ==
    last.cb = "update_insurance" =>
      \A k \in 1..Len(last.figure.traces) :
        LET t == last.figure.traces[k]
        IN  \A i \in 1..Len(t.x) :
              LET pair == SelectSeq(Selected(data, last.args[1]),
                             LAMBDA r : /\ r.InsuranceProvider = t.x[i]
                                        /\ r.MedicalCondition = t.name)
                  v == BillingNumbers(pair)
              IN  IF v = <<>> THEN t.y[i] = NaN
                  ELSE t.y[i] # NaN /\ Len(v) * t.y[i][1] = SumSeq(v)

\* C6: update_billing bins exactly the selected rows (all rows without a
\* gender) whose Billing Amount is a number <= the threshold, in table
\* order; a NaN row is never among them; a threshold under every number of
\* the column gives a histogram of count zero.
C6_CountsRowsUpToThreshold ==
    last.cb = "update_billing" =>
      LET g == last.args[1]
          t == last.args[2]
          expected == SelectSeq(Selected(data, g),
                        LAMBDA r : r.BillingAmount # NaN /\ r.BillingAmount[1] <= t)
      IN  /\ last.figure.kind = "histogram"
          /\ Points(last.figure) = Column(expected, "BillingAmount")
          /\ \A i \in 1..Len(Points(last.figure)) : Points(last.figure)[i] # NaN
          /\ TotalCount(last.figure) = Len(expected)
          /\ (\A i \in 1..Len(data) :
                data[i].BillingAmount # NaN => t < data[i].BillingAmount[1])
             => TotalCount(last.figure) = 0

\* C6 witness: update_billing has counted a row whose amount equals the
\* threshold and left out a selected row whose amount is NaN.
C6_Witness ==
    /\ last.cb = "update_billing"
    /\ TotalCount(last.figure) >= 1
    /\ \E i, j \in 1..Len(Selected(data, last.args[1])) :
          /\ Selected(data, last.args[1])[i].BillingAmount = <<last.args[2]>>
          /\ Selected(data, last.args[1])[j].BillingAmount = NaN

\* C7: the period labels update_admission emits are in strictly ascending
\* chronological order, so none is repeated, whatever the order of the rows.
C7_Chronological ==
    last.cb = "update_admission" =>
      \A k \in 1..Len(last.figure.traces) :
        LET t == last.figure.traces[k]
        IN  /\ Len(t.y) = Len(t.x)
            /\ \A i, j \in 1..Len(t.x) : i < j => LabelKey(t.x[i]) < LabelKey(t.x[j])

\* C7 witness: the table holds a later month before an earlier one, and
\* update_admission has emitted both.
C7_Witness ==
    /\ last.cb = "update_admission"
    /\ Len(last.figure.traces) = 1
    /\ Len(last.figure.traces[1].x) >= 2
    /\ \E i, j \in 1..Len(data) :
          /\ i < j
          /\ PeriodOrd(data[i].YearMonth) > PeriodOrd(data[j].YearMonth)
          /\ ~Truthy(last.args[2])

\* C9: load_data raises only for a date it cannot parse, never for the
\* billing column; when it returns, the table has one row per source row,
\* in order, with the other columns as read; a cell that is no numeral is
\* NaN, which is not the number 0; a numeral keeps its value.
C9_LoadKeepsRows ==
    /\ (\A i \in 1..Len(source) : IsDateText(source[i].DateOfAdmission)) => started
    /\ started =>
         /\ Len(data) = Len(source)
         /\ \A i \in 1..Len(source) :
              /\ data[i].Gender = source[i].Gender
              /\ data[i].Age = source[i].Age
              /\ data[i].MedicalCondition = source[i].MedicalCondition
              /\ data[i].InsuranceProvider = source[i].InsuranceProvider
              /\ IF IsNumeral(source[i].BillingAmount)
                 THEN /\ Len(data[i].BillingAmount) = 1
                      /\ DecimalText(data[i].BillingAmount[1]) = source[i].BillingAmount
                 ELSE data[i].BillingAmount = NaN /\ NaN # <<0>>

\* C9 witness: a loaded table with a cell that did not parse, a cell "0"
\* and a cell with a larger number.
C9_Witness ==
    /\ started
    /\ \E i, j, k \in 1..Len(source) :
          /\ ~IsNumeral(source[i].BillingAmount) /\ data[i].BillingAmount = NaN
          /\ source[j].BillingAmount = <<"0">> /\ data[j].BillingAmount = <<0>>
          /\ data[k].BillingAmount = <<200>>

\* C10: when the gender argument selects some rows, update_distribution
\* returns a histogram whose bin counts, summed over bins and Gender traces,
\* equal the number of selected rows.
C10_BinCountsSum ==
    (last.cb = "update_distribution" /\ Selected(data, last.args[1]) # <<>>)
    => /\ last.figure.kind = "histogram"
       /\ TotalCount(last.figure) = Len(Selected(data, last.args[1]))

\* C10 witness: a histogram with two Gender traces over ages more than
\* nbins apart.
C10_Witness ==
    /\ last.cb = "update_distribution"
    /\ Len(last.figure.traces) = 2
    /\ \E i, j \in 1..Len(data) : data[i].Age - data[j].Age > nbins

\* C5: of two update_billing invocations with the same gender, the one with
\* the higher (or equal) threshold counts at least as many rows.
C5_Monotonic ==
    (/\ memo.cb = "update_billing"
     /\ last.cb = "update_billing"
     /\ memo.args[1] = last.args[1])
    => /\ memo.args[2] <= last.args[2]
            => TotalCount(memo.figure) <= TotalCount(last.figure)
       /\ last.args[2] <= memo.args[2]
            => TotalCount(last.figure) <= TotalCount(memo.figure)

\* C5 witness: two such invocations, the second with a higher threshold and
\* a higher count.
C5_Witness ==
    /\ memo.cb = "update_billing"
    /\ last.cb = "update_billing"
    /\ memo.args[1] = last.args[1]
    /\ memo.args[2] < last.args[2]
    /\ 0 < TotalCount(memo.figure)
    /\ TotalCount(memo.figure) < TotalCount(last.figure)

\* C8: an invocation returns the figure an earlier invocation of the same
\* callback with the same arguments returned, whatever was invoked in
\* between and also across a restart that loads the file again; and the
\* Year-Month column is the one the file gives.
C8_SameArgsSameFigure ==
    /\ (memo.cb # "" /\ memo.cb = last.cb /\ memo.args = last.args)
         => memo.figure = last.figure
    /\ started =>
         Column(data, "YearMonth") = Column(load_data(source).table, "YearMonth")

\* C8 witness: update_billing repeated with the same arguments and a
\* non-empty figure, after other invocations or a restart in between.
C8_Witness ==
    /\ memo.cb = "update_billing"
    /\ last.cb = "update_billing"
    /\ memo.args = last.args
    /\ memo.between
    /\ TotalCount(last.figure) >= 1

====
